---- MODULE Spec2Model ----
(***************************************************************************)
(* InflatingTransform (src/index.js): a Transform stream whose _transform   *)
(* and _flush drain a generator into the Readable side with push(), wait    *)
(* for the 'ready' event when push() returns false, and call the transform  *)
(* callback when the generator ends, the stream is finished, or an error    *)
(* occurs.                                                                  *)
(*                                                                         *)
(* The model is a small-step interpreter of the JavaScript run: a call      *)
(* stack of frames, the microtask queue of promise reactions, the promises  *)
(* not yet settled, and the 'ready' listeners of the EventEmitter.  One     *)
(* action is one step of the code: one iteration of the trampoline loop,    *)
(* one listener of an emit, one promise reaction.                           *)
(***************************************************************************)
EXTENDS Integers, Sequences, FiniteSets, TLC

\* Bounds of the model: the invocations that are in the runtime at the same
\* time, and the values their generators yield in all.
MaxInv == 2
MaxItems == 2

\* The number of items of the generator that yields a fixed list of items.
ScenarioItems == 3

Ids == 1..MaxInv

\* `null`, the value a generator yields to finish the stream; the items an
\* invocation yields are numbered 1, 2, ... by the generator.next() call
\* that produced them.
Null == 0

\* ReadableBufferStatus (src/index.js:349-353)
NOT_FULL == "NOT_FULL"
FULL == "FULL"
FINISHED == "FINISHED"
ReadableBufferStatus == {NOT_FULL, FULL, FINISHED}

\* isFull :: ReadableBufferStatus -> Boolean
isFull(status) == status = FULL

\* isNotFull :: ReadableBufferStatus -> Boolean
isNotFull(status) == status = NOT_FULL

\* toIteratorResult :: Boolean -> a -> IteratorResult a
toIteratorResult(done, value) == [done |-> done, value |-> value]

NoResult == [done |-> TRUE, value |-> Null]

\* Errors: where the error was thrown, by which invocation, at which
\* generator.next() call.
NoError == [src |-> "none", inv |-> 0, n |-> 0]
Err(src, i, n) == [src |-> src, inv |-> i, n |-> n]

\* Continuations (NextFunction): the closures the code hands to trampoline.
\*   pushNext : () => this._pushNextValue(generator, callback)
\*   done     : voidToNull(callback)
\*   fail     : voidToNull(() => callback(e))
\*   promise  : voidToNull(() => promise.then(next).then(resume).catch(callback))
\*   null     : not a function
NoPromise == [via |-> "none", done |-> FALSE, may |-> FALSE]
Cont(k, i, e, p) == [k |-> k, inv |-> i, err |-> e, p |-> p]
NoCont == Cont("null", 0, NoError, NoPromise)
PushNextCont(i) == Cont("pushNext", i, NoError, NoPromise)

\* A variant of voidToNull with a defect: fn is always the callback itself,
\* and the error is lost.
voidToNull_dropsError(i, e) == Cont("done", i, NoError, NoPromise)

\* voidToNull :: (() -> void) -> () -> null, for fn = callback and
\* fn = () => callback(e)
voidToNull(i, e) == Cont(IF e = NoError THEN "done" ELSE "fail", i, e, NoPromise)

VARIABLES
    stack,      \* the call stack, innermost frame last
    jobs,       \* the microtask queue: promise reactions ready to run
    promises,   \* promise chains attached by promiseToPush, not yet settled
    listeners,  \* the once('ready') listeners, in registration order
    pushed,     \* the push() calls so far: invocation, value, answer
    opts,       \* the options the stream was constructed with
    producers,  \* this._inflate and this._burst: "default" (the method of the
                \* class), "opts" (any function given to the constructor) or
                \* "items" (a given function* that yields the items
                \* 1..ScenarioItems, not promises, and returns)
    sink,       \* the Readable side: saturated (push() returned false and
                \* 'ready' was not emitted since), closed (push(null) was called)
    returned,   \* what trampoline returned, if the last step was its return
    invs        \* per invocation, what it did so far:
                \*   started : _transform or _flush was called
                \*   gen     : the generator: mode ("sync" or "async" for one of
                \*             opts, "_inflate" or "_burst" for one of the
                \*             default methods, "items" for the one that
                \*             yields a list), calls of next(), values
                \*             yielded, ended, threw, next() called after the end
                \*   produced: the values the generator yielded
                \*   cbCalls : the invocations of the callback
                \*   cbThrew : how many invocations of the callback threw
                \*   escaped : an exception left the _transform/_flush call
                \*   regs    : the once('ready') registrations
                \*   asynced : next() returned a promise, or a promise as value
                \*   waiting : push() answered false, no 'ready' emitted since
                \*   rejected: the next() call whose promise rejected, or 0

vars == <<stack, jobs, promises, listeners, pushed, opts, producers, sink, returned,
         invs>>

\* Stack frames.
\*   tramp : a run of trampoline(next); origin says who called _resumePushing:
\*           "push" (_push, inside _transform/_flush), "ready" (the listener),
\*           "then" (the promise reaction)
\*   cb    : the transform callback is running (code of the caller); origin
\*           says who called it: "trampoline" (a done/fail continuation),
\*           "factory" (the catch block of _push), "catch" (.catch(callback))
\*   read  : _read: emit("ready") with the listeners it has still to call;
\*           when none is left, super._read(size) is running
Frame(t, i, origin, next, rest) ==
    [t |-> t, inv |-> i, origin |-> origin, next |-> next, rest |-> rest]
TrampFrame(origin, i, next) == Frame("tramp", i, origin, next, <<>>)
CbFrame(i, origin) == Frame("cb", i, origin, NoCont, <<>>)
ReadFrame(rest) == Frame("read", 0, "read", NoCont, rest)

Top == stack[Len(stack)]
Below == SubSeq(stack, 1, Len(stack) - 1)
ReplaceTop(f) == Append(Below, f)

\* The value a call that returned in the last step gave to its caller.
NoReturn == [t |-> FALSE, value |-> "none"]
Return(v) == [t |-> TRUE, value |-> v]

NewGen(mode) ==
    [mode |-> mode, adv |-> 0, yields |-> 0, ended |-> FALSE, threw |-> FALSE,
     again |-> FALSE]

\* The record of an invocation that has not started.
Blank ==
    [started |-> FALSE, gen |-> NewGen("none"), produced |-> <<>>, cbCalls |-> <<>>,
     cbThrew |-> 0, escaped |-> FALSE, regs |-> 0, asynced |-> FALSE,
     waiting |-> FALSE, rejected |-> 0]

\* A variant of the constructor with a defect: opts.burst is ignored.
constructor_ignoresBurst(o) ==
    [_inflate |-> IF o.inflate THEN "opts" ELSE "default",
     _burst |-> "default"]

\* The options the constructor looks at: whether opts.inflate and
\* opts.burst are given.
Options == [inflate : BOOLEAN, burst : BOOLEAN]

\* constructor(opts): if (opts.inflate) this._inflate = opts.inflate, and
\* the same for burst
constructor(o) ==
    [_inflate |-> IF o.inflate THEN "opts" ELSE "default",
     _burst |-> IF o.burst THEN "opts" ELSE "default"]

\* The stream after new InflatingTransform(o)
Constructed(o) ==
    /\ opts = o
    /\ producers = constructor(o)
    /\ stack = <<>>
    /\ jobs = <<>>
    /\ promises = {}
    /\ listeners = <<>>
    /\ pushed = <<>>
    /\ sink = [saturated |-> FALSE, closed |-> FALSE]
    /\ returned = NoReturn
    /\ invs = [i \in Ids |-> Blank]

\* A stream constructed with both producers, which may be any generator
\* functions: the default methods are two of them.
Init == Constructed([inflate |-> TRUE, burst |-> TRUE])

\* Invocation i is in the runtime: a frame, a listener, a promise chain or a
\* promise reaction refers to it.  Nothing can act for an invocation that is
\* not, so what it did can no longer change.
Live(i) ==
    \/ \E k \in 1..Len(stack) :
          \/ stack[k].inv = i
          \/ \E m \in 1..Len(stack[k].rest) : stack[k].rest[m].inv = i
    \/ \E k \in 1..Len(listeners) : listeners[k].inv = i
    \/ \E k \in 1..Len(jobs) : jobs[k].inv = i
    \/ \E p \in promises : p.inv = i

\* The records after a step that changes those of the invocations in
\* DOMAIN new.  The record of an invocation that has left the runtime is
\* kept for the one state that follows its last step and then cleared, and
\* its id is taken again by a later invocation.
Records(new) ==
    [j \in Ids |-> IF j \in DOMAIN new THEN new[j]
                   ELSE IF Live(j) THEN invs[j] ELSE Blank]
Record(i, r) == Records(i :> r)
SameRecords == Records(<<>>)

\* The log of push() calls, without those of invocations that have left the
\* runtime.
Pushed == SelectSeq(pushed, LAMBDA p : Live(p.inv))

\* The chunks invocation i handed to push(), in order.
PushesOf(i) == SelectSeq(pushed, LAMBDA p : p.inv = i)

\* callback(e) is called: what invocation i has done after it.
Called(i, e) ==
    [invs[i] EXCEPT !.cbCalls = Append(@, [err |-> e, pushes |-> Len(PushesOf(i))])]

\* Variants of _pushInflatedData with a defect: the answer of push() is
\* ignored; a chunk the Readable side has no room for is not pushed; null
\* does not finish the stream.
_pushInflatedData_ignoresAnswer(data, more) ==
    IF data = Null
    THEN [chunks |-> <<Null>>, status |-> FINISHED]
    ELSE [chunks |-> <<data>>, status |-> NOT_FULL]
_pushInflatedData_dropsWhenFull(data, more) ==
    IF data = Null
    THEN [chunks |-> <<Null>>, status |-> FINISHED]
    ELSE [chunks |-> IF more THEN <<data>> ELSE <<>>,
          status |-> IF more THEN NOT_FULL ELSE FULL]
_pushInflatedData_nullNotFinished(data, more) ==
    IF data = Null
    THEN [chunks |-> <<Null>>, status |-> NOT_FULL]
    ELSE [chunks |-> <<data>>,
          status |-> IF more THEN NOT_FULL ELSE FULL]

\* A variant with a defect: after push(null) the status follows the answer
\* of push() like after a chunk.
_pushInflatedData_nullFollowsAnswer(data, more) ==
    IF data = Null
    THEN [chunks |-> <<Null>>, status |-> IF more THEN FINISHED ELSE FULL]
    ELSE [chunks |-> <<data>>,
          status |-> IF more THEN NOT_FULL ELSE FULL]

\* _pushInflatedData(data): this.push(null) or this.push(data.chunk, ...);
\* `more` is the answer of push().
_pushInflatedData(data, more) ==
    IF data = Null
    THEN [chunks |-> <<Null>>, status |-> FINISHED]
    ELSE [chunks |-> <<data>>,
          status |-> IF more THEN NOT_FULL ELSE FULL]

\* Variants of _pushYieldedValue with a defect: when the buffer is full it
\* registers the listener and returns next as well; when the generator is
\* done it returns next, or null, instead of done; when the buffer is full
\* it registers the listener and calls the callback without waiting.
_pushYieldedValue_alsoContinues(value, i, more) ==
    LET done == Cont("done", i, NoError, NoPromise)
        next == PushNextCont(i)
    IN  IF value.done
        THEN [ret |-> done, chunks |-> <<>>, once |-> <<>>]
        ELSE LET r == _pushInflatedData(value.value, more)
             IN  IF isFull(r.status)
                 THEN [ret |-> next, chunks |-> r.chunks, once |-> <<next>>]
                 ELSE IF isNotFull(r.status)
                 THEN [ret |-> next, chunks |-> r.chunks, once |-> <<>>]
                 ELSE [ret |-> done, chunks |-> r.chunks, once |-> <<>>]
_pushYieldedValue_advancesWhenDone(value, i, more) ==
    LET done == Cont("done", i, NoError, NoPromise)
        next == PushNextCont(i)
    IN  IF value.done
        THEN [ret |-> next, chunks |-> <<>>, once |-> <<>>]
        ELSE LET r == _pushInflatedData(value.value, more)
             IN  IF isFull(r.status)
                 THEN [ret |-> NoCont, chunks |-> r.chunks, once |-> <<next>>]
                 ELSE IF isNotFull(r.status)
                 THEN [ret |-> next, chunks |-> r.chunks, once |-> <<>>]
                 ELSE [ret |-> done, chunks |-> r.chunks, once |-> <<>>]
_pushYieldedValue_completesWhenFull(value, i, more) ==
    LET done == Cont("done", i, NoError, NoPromise)
        next == PushNextCont(i)
    IN  IF value.done
        THEN [ret |-> done, chunks |-> <<>>, once |-> <<>>]
        ELSE LET r == _pushInflatedData(value.value, more)
             IN  IF isFull(r.status)
                 THEN [ret |-> done, chunks |-> r.chunks, once |-> <<next>>]
                 ELSE IF isNotFull(r.status)
                 THEN [ret |-> next, chunks |-> r.chunks, once |-> <<>>]
                 ELSE [ret |-> done, chunks |-> r.chunks, once |-> <<>>]
_pushYieldedValue_endsSilently(value, i, more) ==
    LET done == Cont("done", i, NoError, NoPromise)
        next == PushNextCont(i)
    IN  IF value.done
        THEN [ret |-> NoCont, chunks |-> <<>>, once |-> <<>>]
        ELSE LET r == _pushInflatedData(value.value, more)
             IN  IF isFull(r.status)
                 THEN [ret |-> NoCont, chunks |-> r.chunks, once |-> <<next>>]
                 ELSE IF isNotFull(r.status)
                 THEN [ret |-> next, chunks |-> r.chunks, once |-> <<>>]
                 ELSE [ret |-> done, chunks |-> r.chunks, once |-> <<>>]

\* A variant with a defect: the value of the result with done = true is
\* pushed before the callback is called.
_pushYieldedValue_pushesReturnValue(value, i, more) ==
    LET done == Cont("done", i, NoError, NoPromise)
        next == PushNextCont(i)
    IN  IF value.done
        THEN [ret |-> done, chunks |-> <<value.value>>, once |-> <<>>]
        ELSE LET r == _pushInflatedData(value.value, more)
             IN  IF isFull(r.status)
                 THEN [ret |-> NoCont, chunks |-> r.chunks, once |-> <<next>>]
                 ELSE IF isNotFull(r.status)
                 THEN [ret |-> next, chunks |-> r.chunks, once |-> <<>>]
                 ELSE [ret |-> done, chunks |-> r.chunks, once |-> <<>>]

\* A variant with a defect: when the buffer is full the invocation ends at
\* once, without waiting for 'ready'.
_pushYieldedValue_fullIsFinished(value, i, more) ==
    LET done == Cont("done", i, NoError, NoPromise)
        next == PushNextCont(i)
    IN  IF value.done
        THEN [ret |-> done, chunks |-> <<>>, once |-> <<>>]
        ELSE LET r == _pushInflatedData(value.value, more)
             IN  IF isNotFull(r.status)
                 THEN [ret |-> next, chunks |-> r.chunks, once |-> <<>>]
                 ELSE [ret |-> done, chunks |-> r.chunks, once |-> <<>>]

\* A variant with a defect: the listener is registered after every chunk,
\* also when the buffer is not full.
_pushYieldedValue_alwaysListens(value, i, more) ==
    LET done == Cont("done", i, NoError, NoPromise)
        next == PushNextCont(i)
    IN  IF value.done
        THEN [ret |-> done, chunks |-> <<>>, once |-> <<>>]
        ELSE LET r == _pushInflatedData(value.value, more)
             IN  IF isFull(r.status)
                 THEN [ret |-> NoCont, chunks |-> r.chunks, once |-> <<next>>]
                 ELSE IF isNotFull(r.status)
                 THEN [ret |-> next, chunks |-> r.chunks, once |-> <<next>>]
                 ELSE [ret |-> done, chunks |-> r.chunks, once |-> <<>>]

\* _pushYieldedValue(value, generator, callback): the continuation it
\* returns, the chunks it pushed and the listeners it registered with
\* this.once("ready", () => this._resumePushing(next)).
_pushYieldedValue(value, i, more) ==
    LET done == voidToNull(i, NoError)
        next == PushNextCont(i)
    IN  IF value.done
        THEN [ret |-> done, chunks |-> <<>>, once |-> <<>>]
        ELSE LET r == _pushInflatedData(value.value, more)
             IN  IF isFull(r.status)
                 THEN [ret |-> NoCont, chunks |-> r.chunks, once |-> <<next>>]
                 ELSE IF isNotFull(r.status)
                 THEN [ret |-> next, chunks |-> r.chunks, once |-> <<>>]
                 ELSE [ret |-> done, chunks |-> r.chunks, once |-> <<>>]

\* push() was called with a chunk and answered false.
SaidFull(r, more) == ~more /\ \E k \in 1..Len(r.chunks) : r.chunks[k] # Null

\* What a call of _pushYieldedValue did to the stream: the Readable side got
\* the chunks, the EventEmitter the listeners.
Pushing(i, r, more) ==
    /\ pushed' = Pushed \o
          [k \in 1..Len(r.chunks) |-> [inv |-> i, val |-> r.chunks[k],
                                     more |-> r.chunks[k] # Null /\ more]]
    /\ sink' = [saturated |-> IF \E k \in 1..Len(r.chunks) : r.chunks[k] # Null
                               THEN ~more ELSE sink.saturated,
                 closed |-> sink.closed \/ \E k \in 1..Len(r.chunks) : r.chunks[k] = Null]
    /\ listeners' = listeners \o
          [k \in 1..Len(r.once) |->
              [inv |-> i, id |-> invs[i].regs + k, next |-> r.once[k]]]

\* The event loop takes its next task when the stack is empty and the
\* microtask queue has been drained.
Idle == stack = <<>> /\ jobs = <<>>

\* The collaborator may call into the stream: from a task of the event loop,
\* from inside a transform callback, or from super._read.
CanEnter ==
    \/ Idle
    \/ Len(stack) > 0 /\ Top.t = "cb"
    \/ Len(stack) > 0 /\ Top.t = "read" /\ Top.rest = <<>>

\* The id of a new invocation: the first one that no invocation in the
\* runtime has.
Fresh(i) ==
    /\ ~Live(i)
    /\ \A j \in Ids : j < i => Live(j)

\* The collaborator serializes the invocations: it starts one only after
\* the callback of every earlier one was called.
Serialized == \A j \in Ids : invs[j].started => invs[j].cbCalls # <<>>

\* The generators factory() can return: the one of the default method, or,
\* for a function given in opts, any synchronous or asynchronous one.
Generators(factory) ==
    IF producers[factory] = "opts" THEN {"sync", "async"}
    ELSE IF producers[factory] = "items" THEN {"items"}
    ELSE {factory}

\* Calling a default method, a generator function, does not throw; a
\* function given in opts may.
MayThrow(factory) == producers[factory] = "opts"

\* A variant of _push with a defect: the catch block hands the error to the
\* trampoline as a continuation instead of calling the callback.
_push_trampolinesError(i, factory) ==
    /\ \/ /\ stack' = Append(stack, TrampFrame("push", i,
                                    Cont("fail", i, Err("factory", i, 0), NoPromise)))
          /\ invs' = Record(i, [Blank EXCEPT !.started = TRUE])
       \/ /\ \E m \in Generators(factory) :
                invs' = Record(i, [Blank EXCEPT !.started = TRUE, !.gen = NewGen(m)])
          /\ stack' = Append(stack, TrampFrame("push", i, PushNextCont(i)))
    /\ pushed' = Pushed
    /\ UNCHANGED <<jobs, promises, listeners, sink>>
    /\ UNCHANGED <<opts, producers>>
    /\ returned' = NoReturn

\* _push(factory, callback), for the new invocation i; factory calls
\* this._inflate or this._burst
_push(i, factory) ==
    /\ \/ \* factory() throws: return callback(e)
          /\ MayThrow(factory)
          /\ stack' = Append(stack, CbFrame(i, "factory"))
          /\ invs' = Record(i, [Blank EXCEPT
                         !.started = TRUE,
                         !.cbCalls = <<[err |-> Err("factory", i, 0), pushes |-> 0]>>])
       \/ \* this._resumePushing(() => this._pushNextValue(generator, callback))
          /\ \E m \in Generators(factory) :
                invs' = Record(i, [Blank EXCEPT !.started = TRUE, !.gen = NewGen(m)])
          /\ stack' = Append(stack, TrampFrame("push", i, PushNextCont(i)))
    /\ pushed' = Pushed
    /\ UNCHANGED <<jobs, promises, listeners, sink>>
    /\ UNCHANGED <<opts, producers>>
    /\ returned' = NoReturn

\* _transform(chunk, encoding, callback):
\* this._push(() => this._inflate(chunk, encoding), callback)
_transform(i) ==
    /\ Fresh(i)
    /\ Serialized
    /\ CanEnter
    /\ _push(i, "_inflate")

\* _flush(callback): this._push(() => this._burst(), callback)
_flush(i) ==
    /\ Fresh(i)
    /\ Serialized
    /\ CanEnter
    /\ _push(i, "_burst")

\* The trampoline loop is about to call the continuation `next` of kind k.
Running(k) ==
    /\ Len(stack) > 0
    /\ Top.t = "tramp"
    /\ Top.next.k = k

\* A variant with a defect: no loop, what next() returned is run by a
\* nested call.
Continue_nested(ret) == Append(stack, [Top EXCEPT !.next = ret])

\* trampoline: next = next(), where next() returned ret
Continue(ret) == ReplaceTop([Top EXCEPT !.next = ret])

\* The generators in the runtime yield at most MaxItems values in all.
RECURSIVE Yields(_)
Yields(S) ==
    IF S = {} THEN 0
    ELSE LET j == CHOOSE x \in S : TRUE
         IN  (IF Live(j) THEN invs[j].gen.yields ELSE 0) + Yields(S \ {j})
MayYield == Yields(Ids) < MaxItems

\* What generator.next() can do at its n-th call on a synchronous generator
\* that has not ended: throw, return {done, value}, or return {done, value:
\* promise}.
SyncOutcomes(n) ==
    {[t |-> "throw", done |-> TRUE, value |-> n],
     [t |-> "result", done |-> TRUE, value |-> n],
     [t |-> "promise", done |-> TRUE, value |-> n]}
    \cup (IF MayYield
          THEN {[t |-> "result", done |-> FALSE, value |-> n],
                [t |-> "result", done |-> FALSE, value |-> Null],
                [t |-> "promise", done |-> FALSE, value |-> n]}
          ELSE {})

\* A variant of the default methods with a defect: *_burst ends without
\* yielding null.
Outcomes_burstYieldsNothing(i, n) ==
    IF invs[i].gen.mode = "_inflate"
    THEN {[t |-> "throw", done |-> TRUE, value |-> n]}
    ELSE IF invs[i].gen.mode = "_burst"
    THEN {[t |-> "result", done |-> TRUE, value |-> Null]}
    ELSE IF invs[i].gen.mode = "items"
    THEN {[t |-> "result", done |-> n > ScenarioItems, value |-> n]}
    ELSE SyncOutcomes(n)

\* What the n-th generator.next() can do on the generator of invocation i:
\* *_inflate throws Error("Unimplemented"); *_burst yields null and then
\* ends; the generator of a list yields its items and ends; another
\* generator of opts does anything.
Outcomes(i, n) ==
    IF invs[i].gen.mode = "_inflate"
    THEN {[t |-> "throw", done |-> TRUE, value |-> n]}
    ELSE IF invs[i].gen.mode = "_burst"
    THEN {[t |-> "result", done |-> n > 1, value |-> Null]}
    ELSE IF invs[i].gen.mode = "items"
    THEN {[t |-> "result", done |-> n > ScenarioItems, value |-> n]}
    ELSE SyncOutcomes(n)

\* A variant of the default *_inflate with a defect: its error is not the
\* one that says the method is not implemented.
Thrown_otherError(i, n) == Err("next", i, n)

\* The error the n-th generator.next() of invocation i throws.
Thrown(i, n) ==
    Err(IF invs[i].gen.mode = "_inflate" THEN "Unimplemented" ELSE "next", i, n)

\* A variant with a defect: promiseToPush returns null, not a function, and
\* no reaction is attached to the promise.
promiseToPush_forgets(i, via, done, may) == NoCont

\* promiseToPush(promise): the continuation that attaches the reactions
promiseToPush(i, via, done, may) ==
    Cont("promise", i, NoError, [via |-> via, done |-> done, may |-> may])

\* What invocation i has done after a call of _pushYieldedValue that
\* returned r, its generator being g and the values it yielded ys.
Yielded(i, g, ys, r, more) ==
    [invs[i] EXCEPT !.gen = g, !.produced = ys, !.regs = @ + Len(r.once),
                    !.waiting = @ \/ SaidFull(r, more)]
Advanced(i, g, promise) ==
    [invs[i] EXCEPT !.gen = g, !.asynced = @ \/ promise]

\* A variant with a defect: the catch block swallows the error and asks the
\* generator again.
catchNextError_retries(i, n) == PushNextCont(i)

\* _pushNextValue, catch (e): return voidToNull(() => callback(e)), for the
\* error the n-th generator.next() threw
catchNextError(i, n) == voidToNull(i, Thrown(i, n))

\* _pushNextValue(generator, callback), called by the trampoline
_pushNextValue(i) ==
    /\ Running("pushNext")
    /\ Top.next.inv = i
    /\ LET n == invs[i].gen.adv + 1
           g == [invs[i].gen EXCEPT !.adv = n]
       IN
       IF invs[i].gen.ended
       THEN \* next() on a generator that has ended: {done: true}
            /\ invs' = Record(i, Advanced(i, [g EXCEPT !.again = TRUE], g.mode = "async"))
            /\ IF g.mode = "async"
               THEN stack' = Continue(promiseToPush(i, "ended", TRUE, FALSE))
               ELSE stack' = Continue(_pushYieldedValue(NoResult, i, TRUE).ret)
            /\ pushed' = Pushed
            /\ UNCHANGED <<sink, listeners>>
       ELSE IF g.mode = "async"
       THEN \* isPromiseLike(result): return promiseToPush(result)
            /\ invs' = Record(i, Advanced(i,
                          [g EXCEPT !.yields = IF MayYield THEN @ + 1 ELSE @], TRUE))
            /\ stack' = Continue(promiseToPush(i, "result", FALSE, MayYield))
            /\ pushed' = Pushed
            /\ UNCHANGED <<sink, listeners>>
       ELSE \E o \in Outcomes(i, n) :
            LET go == [g EXCEPT !.ended = o.done,
                                !.threw = (o.t = "throw"),
                                !.yields = IF o.done THEN @ ELSE @ + 1]
            IN
            \/ \* catch (e): return voidToNull(() => callback(e))
               /\ o.t = "throw"
               /\ invs' = Record(i, Advanced(i, go, FALSE))
               /\ stack' = Continue(catchNextError(i, n))
               /\ pushed' = Pushed
               /\ UNCHANGED <<sink, listeners>>
            \/ \* isPromiseLike(result.value):
               \* return promiseToPush(result.value.then(toIteratorResult(result.done)))
               /\ o.t = "promise"
               /\ invs' = Record(i, Advanced(i, go, TRUE))
               /\ stack' = Continue(promiseToPush(i, "value", o.done, FALSE))
               /\ pushed' = Pushed
               /\ UNCHANGED <<sink, listeners>>
            \/ \* return next(result)
               /\ o.t = "result"
               /\ \E more \in BOOLEAN :
                     LET r == _pushYieldedValue(toIteratorResult(o.done, o.value), i, more)
                         ys == IF o.done THEN invs[i].produced
                               ELSE Append(invs[i].produced, o.value)
                     IN  /\ Pushing(i, r, more)
                         /\ invs' = Record(i, Yielded(i, go, ys, r, more))
                         /\ stack' = Continue(r.ret)
    /\ UNCHANGED <<jobs, promises>>
    /\ UNCHANGED <<opts, producers>>
    /\ returned' = NoReturn

\* A variant with a defect: the continuation of voidToNull returns itself,
\* not null, and the trampoline calls it again.
callDone_returnsItself(i) ==
    /\ \/ Running("done")
       \/ Running("fail")
    /\ Top.next.inv = i
    /\ stack' = Append(stack, CbFrame(i, "trampoline"))
    /\ invs' = Record(i, Called(i, Top.next.err))
    /\ pushed' = Pushed
    /\ UNCHANGED <<jobs, promises, listeners, sink>>
    /\ UNCHANGED <<opts, producers>>
    /\ returned' = NoReturn

\* The trampoline calls voidToNull(callback) or voidToNull(() => callback(e)):
\* the callback runs, and the continuation will return null.
callDone(i) ==
    /\ \/ Running("done")
       \/ Running("fail")
    /\ Top.next.inv = i
    /\ stack' = Append(Continue(NoCont), CbFrame(i, "trampoline"))
    /\ invs' = Record(i, Called(i, Top.next.err))
    /\ pushed' = Pushed
    /\ UNCHANGED <<jobs, promises, listeners, sink>>
    /\ UNCHANGED <<opts, producers>>
    /\ returned' = NoReturn

\* A variant with a defect: after attaching the reactions the continuation
\* returns next instead of null, and the generator is asked again before
\* the promise has settled.
attachReactions_keepsGoing(i) ==
    /\ Running("promise")
    /\ Top.next.inv = i
    /\ promises' = promises \cup
          {[inv |-> i, via |-> Top.next.p.via, done |-> Top.next.p.done,
            may |-> Top.next.p.may, n |-> invs[i].gen.adv]}
    /\ stack' = Continue(PushNextCont(i))
    /\ invs' = SameRecords
    /\ pushed' = Pushed
    /\ UNCHANGED <<jobs, listeners, sink>>
    /\ UNCHANGED <<opts, producers>>
    /\ returned' = NoReturn

\* The trampoline calls the continuation promiseToPush returned:
\* promise.then(next).then((next) => this._resumePushing(next)).catch(callback)
attachReactions(i) ==
    /\ Running("promise")
    /\ Top.next.inv = i
    /\ promises' = promises \cup
          {[inv |-> i, via |-> Top.next.p.via, done |-> Top.next.p.done,
            may |-> Top.next.p.may, n |-> invs[i].gen.adv]}
    /\ stack' = Continue(NoCont)
    /\ invs' = SameRecords
    /\ pushed' = Pushed
    /\ UNCHANGED <<jobs, listeners, sink>>
    /\ UNCHANGED <<opts, producers>>
    /\ returned' = NoReturn

\* A variant of trampoline with a defect: it returns the last value of
\* next, whatever it is, instead of null.
trampolineReturns_returnsNext ==
    /\ Running("null")
    /\ stack' = Below
    /\ returned' = Return("next")
    /\ invs' = SameRecords
    /\ pushed' = Pushed
    /\ UNCHANGED <<jobs, promises, listeners, sink>>
    /\ UNCHANGED <<opts, producers>>

\* trampoline: typeof next !== "function": return null
trampolineReturns ==
    /\ Running("null")
    /\ stack' = Below
    /\ returned' = Return("null")
    /\ invs' = SameRecords
    /\ pushed' = Pushed
    /\ UNCHANGED <<jobs, promises, listeners, sink>>
    /\ UNCHANGED <<opts, producers>>

\* The transform callback returns to the code that called it.
callbackReturns ==
    /\ Len(stack) > 0
    /\ Top.t = "cb"
    /\ stack' = Below
    /\ invs' = SameRecords
    /\ pushed' = Pushed
    /\ UNCHANGED <<jobs, promises, listeners, sink>>
    /\ UNCHANGED <<opts, producers>>
    /\ returned' = NoReturn

\* A promise reaction: one link of
\* promise.then(next).then((next) => this._resumePushing(next)).catch(callback)
\* whose promise has settled (ok: fulfilled with res or cont, else rejected
\* with err).
Job(stage, i, ok, res, cont, e) ==
    [stage |-> stage, inv |-> i, ok |-> ok, res |-> res, cont |-> cont, err |-> e]

\* The frames an exception thrown in the innermost frame unwinds.  No frame
\* between a callback and the bottom of the stack catches: the try blocks of
\* _push and _pushNextValue have returned before a continuation runs.  Only
\* a promise reaction (a trampoline run by .then) turns the exception into a
\* rejection, which .catch(callback) receives.
CbFramesOf(j) == {k \in 1..Len(stack) : stack[k].t = "cb" /\ stack[k].inv = j}
LeavesCall(j) ==
    \E k \in 1..Len(stack) :
        /\ stack[k].inv = j
        /\ \/ stack[k].t = "tramp" /\ stack[k].origin = "push"
           \/ stack[k].t = "cb" /\ stack[k].origin = "factory"
OnStack == {j \in Ids : \E k \in 1..Len(stack) : stack[k].inv = j}

\* A variant with a defect: the callback is called inside the try block of
\* _pushNextValue, whose catch block hands the exception to callback(e).
callbackThrows_handedBack ==
    /\ Len(stack) > 1
    /\ Top.t = "cb"
    /\ Top.origin = "trampoline"
    /\ LET e == Err("callback", Top.inv, Len(invs[Top.inv].cbCalls))
           tramp == stack[Len(stack) - 1]
       IN  /\ stack' = Append(SubSeq(stack, 1, Len(stack) - 2),
                              [tramp EXCEPT !.next = Cont("fail", Top.inv, e, NoPromise)])
           /\ invs' = Record(Top.inv, [invs[Top.inv] EXCEPT !.cbThrew = @ + 1])
    /\ pushed' = Pushed
    /\ UNCHANGED <<jobs, promises, listeners, sink>>
    /\ UNCHANGED <<opts, producers>>
    /\ returned' = NoReturn

\* The transform callback throws.
callbackThrows ==
    /\ Len(stack) > 0
    /\ Top.t = "cb"
    /\ LET e == Err("callback", Top.inv, Len(invs[Top.inv].cbCalls))
       IN  /\ invs' = Records([j \in OnStack |->
                         [invs[j] EXCEPT !.cbThrew = @ + Cardinality(CbFramesOf(j)),
                                         !.escaped = @ \/ LeavesCall(j)]])
           /\ IF stack[1].t = "tramp" /\ stack[1].origin = "then"
              THEN jobs' = Append(jobs, Job("catch", stack[1].inv, FALSE, NoResult, NoCont, e))
              ELSE UNCHANGED jobs
    /\ stack' = <<>>
    /\ pushed' = Pushed
    /\ UNCHANGED <<promises, listeners, sink>>
    /\ UNCHANGED <<opts, producers>>
    /\ returned' = NoReturn

\* A variant of _read with a defect: it calls super._read(size) without
\* emitting 'ready'.
_read_noEmit ==
    /\ Idle
    /\ stack' = <<>>
    /\ sink' = sink
    /\ invs' = SameRecords
    /\ pushed' = Pushed
    /\ UNCHANGED <<jobs, promises, listeners>>
    /\ UNCHANGED <<opts, producers>>
    /\ returned' = NoReturn

\* A variant of _read with a defect: with no listener registered, 'ready'
\* resumes an invocation that waits for a promise.
_read_resumesAwaiting ==
    /\ Idle
    /\ stack' = IF listeners # <<>> THEN <<ReadFrame(listeners)>>
                ELSE IF promises # {}
                THEN LET p == CHOOSE q \in promises : TRUE
                     IN  <<TrampFrame("ready", p.inv, PushNextCont(p.inv))>>
                ELSE <<>>
    /\ sink' = [sink EXCEPT !.saturated = FALSE]
    /\ invs' = Records([j \in {k \in Ids : Live(k)} |->
                           [invs[j] EXCEPT !.waiting = FALSE]])
    /\ pushed' = Pushed
    /\ UNCHANGED <<jobs, promises, listeners>>
    /\ UNCHANGED <<opts, producers>>
    /\ returned' = NoReturn

\* A variant of _read with a defect: super._read(size) runs, the Readable
\* side having been drained, and 'ready' is not emitted before it.
_read_superOnly ==
    /\ Idle
    /\ stack' = IF listeners = <<>> THEN <<>> ELSE <<ReadFrame(<<>>)>>
    /\ sink' = [sink EXCEPT !.saturated = FALSE]
    /\ invs' = SameRecords
    /\ pushed' = Pushed
    /\ UNCHANGED <<jobs, promises, listeners>>
    /\ UNCHANGED <<opts, producers>>
    /\ returned' = NoReturn

\* _read(size): this.emit("ready") calls a copy of the listeners in turn,
\* then super._read(size) runs.  With no listener emit returns at once.
_read ==
    /\ Idle
    /\ stack' = IF listeners = <<>> THEN <<>> ELSE <<ReadFrame(listeners)>>
    /\ sink' = [sink EXCEPT !.saturated = FALSE]
    /\ invs' = Records([j \in {k \in Ids : Live(k)} |->
                           [invs[j] EXCEPT !.waiting = FALSE]])
    /\ pushed' = Pushed
    /\ UNCHANGED <<jobs, promises, listeners>>
    /\ UNCHANGED <<opts, producers>>
    /\ returned' = NoReturn

Remove(seq, x) == SelectSeq(seq, LAMBDA y : y # x)
Registered(l) == \E k \in 1..Len(listeners) : listeners[k] = l

\* A variant with a defect: the listener calls the callback instead of
\* going on with generator.next().
readyListener_completes ==
    /\ Len(stack) > 0
    /\ Top.t = "read"
    /\ Top.rest # <<>>
    /\ LET l == Head(Top.rest)
           after == ReplaceTop([Top EXCEPT !.rest = Tail(@)])
       IN  IF Registered(l)
           THEN /\ listeners' = Remove(listeners, l)
                /\ stack' = Append(after, TrampFrame("ready", l.inv,
                                                     Cont("done", l.inv, NoError, NoPromise)))
           ELSE /\ stack' = after
                /\ UNCHANGED listeners
    /\ invs' = SameRecords
    /\ pushed' = Pushed
    /\ UNCHANGED <<jobs, promises, sink>>
    /\ UNCHANGED <<opts, producers>>
    /\ returned' = NoReturn

\* A variant with a defect: the listener was registered with on, not once,
\* and stays registered after it was called.
readyListener_persistent ==
    /\ Len(stack) > 0
    /\ Top.t = "read"
    /\ Top.rest # <<>>
    /\ LET l == Head(Top.rest)
           after == ReplaceTop([Top EXCEPT !.rest = Tail(@)])
       IN  /\ stack' = Append(after, TrampFrame("ready", l.inv, l.next))
           /\ UNCHANGED listeners
    /\ invs' = SameRecords
    /\ pushed' = Pushed
    /\ UNCHANGED <<jobs, promises, sink>>
    /\ UNCHANGED <<opts, producers>>
    /\ returned' = NoReturn

\* emit calls the next listener: the once wrapper removes itself and calls
\* () => this._resumePushing(next), unless it has fired already
readyListener ==
    /\ Len(stack) > 0
    /\ Top.t = "read"
    /\ Top.rest # <<>>
    /\ LET l == Head(Top.rest)
           after == ReplaceTop([Top EXCEPT !.rest = Tail(@)])
       IN  IF Registered(l)
           THEN /\ listeners' = Remove(listeners, l)
                /\ stack' = Append(after, TrampFrame("ready", l.inv, l.next))
           ELSE /\ stack' = after
                /\ UNCHANGED listeners
    /\ invs' = SameRecords
    /\ pushed' = Pushed
    /\ UNCHANGED <<jobs, promises, sink>>
    /\ UNCHANGED <<opts, producers>>
    /\ returned' = NoReturn

\* _read(size): emit has returned, super._read(size) returns
readReturns ==
    /\ Len(stack) > 0
    /\ Top.t = "read"
    /\ Top.rest = <<>>
    /\ stack' = Below
    /\ invs' = SameRecords
    /\ pushed' = Pushed
    /\ UNCHANGED <<jobs, promises, listeners, sink>>
    /\ UNCHANGED <<opts, producers>>
    /\ returned' = NoReturn

\* How the promise p of a chain can settle: fulfilled with an IteratorResult
\* (for a yielded promise, after .then(toIteratorResult(result.done))), or
\* rejected.
Settlements(p) ==
    {[ok |-> FALSE, res |-> NoResult]}
    \cup (IF p.via = "ended" THEN {[ok |-> TRUE, res |-> NoResult]} ELSE {})
    \cup (IF p.via = "value"
          THEN {[ok |-> TRUE, res |-> toIteratorResult(p.done, v)] : v \in {p.n, Null}}
          ELSE {})
    \cup (IF p.via = "result"
          THEN {[ok |-> TRUE, res |-> toIteratorResult(TRUE, p.n)]}
               \cup (IF p.may
                     THEN {[ok |-> TRUE, res |-> toIteratorResult(FALSE, v)] : v \in {p.n, Null}}
                     ELSE {})
          ELSE {})

\* The promise of a chain settles: its first reaction becomes a microtask.
settle(p) ==
    /\ p \in promises
    /\ Idle
    /\ promises' = promises \ {p}
    /\ \E s \in Settlements(p) :
          /\ jobs' = Append(jobs, Job("next", p.inv, s.ok, s.res, NoCont,
                                      IF s.ok THEN NoError ELSE Err("reject", p.inv, p.n)))
          /\ invs' = Record(p.inv,
                [invs[p.inv] EXCEPT
                    !.gen.ended = @ \/ (p.via = "result" /\ (~s.ok \/ s.res.done)),
                    !.produced = IF s.ok /\ ~s.res.done THEN Append(@, s.res.value) ELSE @,
                    !.rejected = IF s.ok THEN @ ELSE p.n])
    /\ pushed' = Pushed
    /\ UNCHANGED <<stack, listeners, sink>>
    /\ UNCHANGED <<opts, producers>>
    /\ returned' = NoReturn

NextJob(stage) ==
    /\ stack = <<>>
    /\ jobs # <<>>
    /\ Head(jobs).stage = stage

\* A variant with a defect: a promise that resolves to null is taken for
\* the end of the generator, and null is not pushed.
thenNext_nullIsDone ==
    /\ NextJob("next")
    /\ LET j == Head(jobs)
           res == IF j.res.value = Null THEN NoResult ELSE j.res
       IN  IF j.ok
           THEN \E more \in BOOLEAN :
                   LET r == _pushYieldedValue(res, j.inv, more)
                   IN  /\ Pushing(j.inv, r, more)
                       /\ invs' = Record(j.inv, [invs[j.inv] EXCEPT
                                         !.regs = @ + Len(r.once),
                                         !.waiting = @ \/ SaidFull(r, more)])
                       /\ jobs' = Append(Tail(jobs),
                                         Job("resume", j.inv, TRUE, NoResult, r.ret, NoError))
           ELSE /\ jobs' = Append(Tail(jobs), [j EXCEPT !.stage = "resume"])
                /\ invs' = SameRecords
                /\ pushed' = Pushed
                /\ UNCHANGED <<sink, listeners>>
    /\ UNCHANGED <<stack, promises>>
    /\ UNCHANGED <<opts, producers>>
    /\ returned' = NoReturn

\* .then(next): next = (value) => this._pushYieldedValue(value, generator, callback)
thenNext ==
    /\ NextJob("next")
    /\ LET j == Head(jobs)
       IN  IF j.ok
           THEN \E more \in BOOLEAN :
                   LET r == _pushYieldedValue(j.res, j.inv, more)
                   IN  /\ Pushing(j.inv, r, more)
                       /\ invs' = Record(j.inv, [invs[j.inv] EXCEPT
                                         !.regs = @ + Len(r.once),
                                         !.waiting = @ \/ SaidFull(r, more)])
                       /\ jobs' = Append(Tail(jobs),
                                         Job("resume", j.inv, TRUE, NoResult, r.ret, NoError))
           ELSE /\ jobs' = Append(Tail(jobs), [j EXCEPT !.stage = "resume"])
                /\ invs' = SameRecords
                /\ pushed' = Pushed
                /\ UNCHANGED <<sink, listeners>>
    /\ UNCHANGED <<stack, promises>>
    /\ UNCHANGED <<opts, producers>>
    /\ returned' = NoReturn

\* A variant with a defect: the chain has no .catch(callback), and a
\* rejection is lost.
thenResume_noCatch ==
    /\ NextJob("resume")
    /\ LET j == Head(jobs)
       IN  IF j.ok
           THEN /\ stack' = <<TrampFrame("then", j.inv, j.cont)>>
                /\ jobs' = Tail(jobs)
           ELSE /\ jobs' = Tail(jobs)
                /\ UNCHANGED stack
    /\ invs' = SameRecords
    /\ pushed' = Pushed
    /\ UNCHANGED <<promises, listeners, sink>>
    /\ UNCHANGED <<opts, producers>>
    /\ returned' = NoReturn

\* .then((next) => this._resumePushing(next))
thenResume ==
    /\ NextJob("resume")
    /\ LET j == Head(jobs)
       IN  IF j.ok
           THEN /\ stack' = <<TrampFrame("then", j.inv, j.cont)>>
                /\ jobs' = Tail(jobs)
           ELSE /\ jobs' = Append(Tail(jobs), [j EXCEPT !.stage = "catch"])
                /\ UNCHANGED stack
    /\ invs' = SameRecords
    /\ pushed' = Pushed
    /\ UNCHANGED <<promises, listeners, sink>>
    /\ UNCHANGED <<opts, producers>>
    /\ returned' = NoReturn

\* .catch(callback)
catchCallback ==
    /\ NextJob("catch")
    /\ LET j == Head(jobs)
       IN  /\ stack' = <<CbFrame(j.inv, "catch")>>
           /\ invs' = Record(j.inv, Called(j.inv, j.err))
    /\ jobs' = Tail(jobs)
    /\ pushed' = Pushed
    /\ UNCHANGED <<promises, listeners, sink>>
    /\ UNCHANGED <<opts, producers>>
    /\ returned' = NoReturn

Next ==
    \/ \E i \in Ids : _transform(i)
    \/ \E i \in Ids : _flush(i)
    \/ \E i \in Ids : _pushNextValue(i)
    \/ \E i \in Ids : callDone(i)
    \/ \E i \in Ids : attachReactions(i)
    \/ trampolineReturns
    \/ callbackReturns
    \/ callbackThrows
    \/ _read
    \/ readyListener
    \/ readReturns
    \/ \E p \in promises : settle(p)
    \/ thenNext
    \/ thenResume
    \/ catchCallback

Spec == Init /\ [][Next]_vars

(***************************************************************************)
(* Properties of the pump.                                                  *)
(***************************************************************************)

\* The values of a log of push() calls.
Vals(log) == [k \in 1..Len(log) |-> log[k].val]

IsPrefix(s, t) ==
    /\ Len(s) <= Len(t)
    /\ \A k \in 1..Len(s) : s[k] = t[k]

\* push() never answered false to invocation i.
NeverFull(i) ==
    \A k \in 1..Len(PushesOf(i)) : PushesOf(i)[k].val = Null \/ PushesOf(i)[k].more

\* Every next() call of invocation i returned a plain IteratorResult, and
\* push() never answered false: the invocation runs inside one _transform or
\* _flush call.
SyncNeverFull(i) ==
    /\ invs[i].started
    /\ ~invs[i].asynced
    /\ NeverFull(i)

\* The continuation of kind k of invocation i is the next thing to run for
\* it: the trampoline is about to call it, or the reaction that resumes the
\* trampoline with it is queued.
WillCall(i, k) ==
    \/ /\ Len(stack) > 0
       /\ Top.t = "tramp"
       /\ Top.next.k = k
       /\ Top.next.inv = i
    \/ \E m \in 1..Len(jobs) :
          /\ jobs[m].stage = "resume"
          /\ jobs[m].ok
          /\ jobs[m].cont.k = k
          /\ jobs[m].cont.inv = i

C2_NoSecondCallAfterThrow ==
    \A i \in Ids : invs[i].cbThrew >= 1 => Len(invs[i].cbCalls) <= 1

\* C3: when every item is produced synchronously and push() never answers
\* false, an exception thrown by the callback leaves the _transform or
\* _flush call: nothing of the invocation keeps running, no reaction is
\* queued for it, and the callback is not called again with the exception.
C3_CallbackThrowPropagates ==
    \A i \in Ids :
        SyncNeverFull(i) /\ invs[i].cbThrew >= 1 =>
            /\ invs[i].escaped
            /\ Len(invs[i].cbCalls) = 1
            /\ invs[i].cbCalls[1].err.src # "callback"
            /\ \A k \in 1..Len(stack) : stack[k].inv # i
            /\ \A m \in 1..Len(jobs) : jobs[m].inv # i

\* The callback of an invocation that pushed an item synchronously threw,
\* and the exception left the call.
C3_Witness ==
    \E i \in Ids :
        /\ SyncNeverFull(i)
        /\ invs[i].gen.mode = "sync"
        /\ Len(PushesOf(i)) >= 1
        /\ invs[i].cbThrew >= 1
        /\ invs[i].escaped

\* C4: once push() has answered false to an invocation, the invocation
\* pushes nothing until 'ready' is emitted, and what it pushes afterwards
\* continues the values its generator yielded, in their order.
C4_NoPushUntilReady ==
    [][\A i \in Ids :
          /\ invs[i].waiting => Len(PushesOf(i)') <= Len(PushesOf(i))
          /\ invs[i].waiting /\ invs'[i].started =>
                IsPrefix(Vals(PushesOf(i)'), invs'[i].produced)]_vars

\* push() answered false to the first item of an invocation, which pushed
\* its second item later.
C4_Witness ==
    \E i \in Ids :
        /\ Len(PushesOf(i)) >= 2
        /\ PushesOf(i)[1].val # Null
        /\ ~PushesOf(i)[1].more
        /\ PushesOf(i)[2].val # Null

\* A synchronous generator that yielded N >= 0 values, none of them null or
\* a promise, and ended without throwing, push() having answered true each
\* time.
SyncRunEnded(i) ==
    /\ invs[i].gen.mode = "sync"
    /\ SyncNeverFull(i)
    /\ invs[i].gen.ended
    /\ ~invs[i].gen.threw

\* C5: for N >= 0 synchronous items to which push() always answers true,
\* the invocation pushes exactly the N items in the order they were yielded,
\* and then calls the callback once, with no error.
C5_SyncRunPushesAllThenCompletes ==
    \A i \in Ids :
        SyncRunEnded(i) =>
            /\ Vals(PushesOf(i)) = invs[i].produced
            /\ Len(invs[i].cbCalls) <= 1
            /\ invs[i].cbCalls = <<>> => WillCall(i, "done")
            /\ invs[i].cbCalls # <<>> =>
                  invs[i].cbCalls[1] = [err |-> NoError, pushes |-> Len(invs[i].produced)]

\* A run of two items has completed.
C5_Witness ==
    \E i \in Ids :
        /\ SyncRunEnded(i)
        /\ Len(invs[i].produced) >= 2
        /\ Len(invs[i].cbCalls) = 1

\* The reaction that will push the value v of invocation i is queued.
WillPush(i, v) ==
    \E m \in 1..Len(jobs) :
        /\ jobs[m].stage = "next"
        /\ jobs[m].inv = i
        /\ jobs[m].ok
        /\ jobs[m].res = toIteratorResult(FALSE, v)

\* C6: at every point, with any mix of waits for 'ready' and of promises,
\* the values an invocation has pushed are a prefix of the values its
\* generator has yielded, none pushed twice; at most the last value yielded
\* is not pushed yet, and then the reaction that pushes it is queued.
C6_PushedIsPrefixOfProduced ==
    \A i \in Ids :
        LET ps == Vals(PushesOf(i))
            ys == invs[i].produced
        IN  /\ IsPrefix(ps, ys)
            /\ \A a, b \in 1..Len(ps) : ps[a] = ps[b] => a = b
            /\ Len(ys) <= Len(ps) + 1
            /\ Len(ys) = Len(ps) + 1 => WillPush(i, ys[Len(ys)])

\* An invocation that waited for 'ready' and got a value from a promise has
\* pushed two values.
C6_Witness ==
    \E i \in Ids :
        /\ invs[i].asynced
        /\ invs[i].regs >= 1
        /\ Len(PushesOf(i)) >= 2
        /\ Vals(PushesOf(i)) = invs[i].produced

NullAt(seq) == {k \in 1..Len(seq) : seq[k] = Null}

\* C7: if the generator yields null, the invocation calls push(null) once,
\* the stream is finished, generator.next() and push() are not called again,
\* and the callback is called with success.
C7_NullFinishes ==
    \A i \in Ids :
        LET ys == invs[i].produced
            ps == Vals(PushesOf(i))
        IN  NullAt(ys) # {} =>
                /\ NullAt(ys) = {Len(ys)}
                /\ invs[i].gen.adv = Len(ys)
                /\ NullAt(ps) \subseteq {Len(ys)}
                /\ NullAt(ps) = {} => WillPush(i, Null) /\ invs[i].cbCalls = <<>>
                /\ NullAt(ps) # {} =>
                      /\ ps = ys
                      /\ sink.closed
                      /\ invs[i].cbCalls = <<>> => WillCall(i, "done")
                      /\ invs[i].cbCalls # <<>> =>
                            invs[i].cbCalls[1] = [err |-> NoError, pushes |-> Len(ys)]

\* An invocation that pushed an item and then null has called its callback.
C7_Witness ==
    \E i \in Ids :
        /\ Len(PushesOf(i)) >= 2
        /\ PushesOf(i)[Len(PushesOf(i))].val = Null
        /\ Len(invs[i].cbCalls) = 1

\* C8: if the first generator.next() throws, push() is never called for the
\* invocation and the callback is called exactly once, with that error.
C8_FirstAdvanceThrows ==
    \A i \in Ids :
        invs[i].gen.threw /\ invs[i].gen.adv = 1 =>
            /\ PushesOf(i) = <<>>
            /\ Len(invs[i].cbCalls) <= 1
            /\ invs[i].cbCalls = <<>> =>
                  /\ WillCall(i, "fail")
                  /\ Top.next.err = Thrown(i, 1)
            /\ invs[i].cbCalls # <<>> =>
                  invs[i].cbCalls[1] = [err |-> Thrown(i, 1), pushes |-> 0]

\* The callback was called after the first generator.next() threw.
C8_Witness ==
    \E i \in Ids :
        /\ invs[i].gen.threw
        /\ invs[i].gen.adv = 1
        /\ Len(invs[i].cbCalls) = 1

\* C9: if a yielded promise, or the promise an asynchronous generator's
\* next() returned, rejects, the callback is called exactly once with the
\* rejection, the rejected item is not pushed, and generator.next() and
\* push() are not called for the invocation afterwards.
C9_RejectionEndsInvocation ==
    \A i \in Ids :
        LET n == invs[i].rejected
            e == Err("reject", i, n)
        IN  n > 0 =>
                /\ invs[i].gen.adv = n
                /\ Vals(PushesOf(i)) = invs[i].produced
                /\ \A k \in 1..Len(PushesOf(i)) : PushesOf(i)[k].val # n
                /\ Len(invs[i].cbCalls) <= 1
                /\ invs[i].cbCalls = <<>> =>
                      \E m \in 1..Len(jobs) :
                          jobs[m].inv = i /\ ~jobs[m].ok /\ jobs[m].err = e
                /\ invs[i].cbCalls # <<>> => invs[i].cbCalls[1].err = e

\* The second item of an invocation rejected after the first was pushed, and
\* the callback was called.
C9_Witness ==
    \E i \in Ids :
        /\ invs[i].rejected = 2
        /\ Len(PushesOf(i)) = 1
        /\ Len(invs[i].cbCalls) = 1

\* factory() threw: the invocation has no generator.
FactoryThrew(i) == invs[i].started /\ invs[i].gen.mode = "none"

\* C10: if factory() throws, generator.next() and push() are never called,
\* no 'ready' listener is registered, and _push calls the callback itself,
\* exactly once, with that error.
C10_FactoryThrows ==
    \A i \in Ids :
        FactoryThrew(i) =>
            /\ invs[i].gen.adv = 0
            /\ PushesOf(i) = <<>>
            /\ invs[i].regs = 0
            /\ \A k \in 1..Len(listeners) : listeners[k].inv # i
            /\ \A p \in promises : p.inv # i
            /\ \A m \in 1..Len(jobs) : jobs[m].inv # i
            /\ invs[i].cbCalls = <<[err |-> Err("factory", i, 0), pushes |-> 0]>>
            /\ \A k \in 1..Len(stack) :
                  stack[k].inv = i => stack[k].t = "cb" /\ stack[k].origin = "factory"

\* The callback is running, called by _push with the error of factory().
C10_Witness ==
    \E i \in Ids :
        /\ FactoryThrew(i)
        /\ Len(stack) > 0
        /\ Top = CbFrame(i, "factory")

\* generator.next() of invocation i failed at its k-th call: it threw, or
\* the promise it gave rejected.
FailedAt(i) ==
    IF invs[i].rejected > 0 THEN invs[i].rejected
    ELSE IF invs[i].gen.threw THEN invs[i].gen.adv
    ELSE 0

\* The error of that failure.
FailureOf(i) ==
    IF invs[i].rejected > 0 THEN Err("reject", i, invs[i].rejected)
    ELSE Thrown(i, invs[i].gen.adv)

\* The callback of invocation i is about to be called with the error e.
WillFail(i, e) ==
    \/ /\ WillCall(i, "fail")
       /\ Len(stack) > 0
       /\ Top.next.err = e
    \/ \E m \in 1..Len(jobs) : jobs[m].inv = i /\ ~jobs[m].ok /\ jobs[m].err = e

Terminated(i) ==
    \/ invs[i].gen.ended
    \/ NullAt(Vals(PushesOf(i))) # {}
    \/ FailedAt(i) > 0

\* C12: an invocation that has seen done = true, the FINISHED status or an
\* error has no 'ready' listener registered, has never called next() on a
\* generator that had ended, and calls neither next() nor push() again.
C12_NothingAfterTermination ==
    /\ [](\A i \in Ids :
            Terminated(i) =>
                /\ ~invs[i].gen.again
                /\ \A k \in 1..Len(listeners) : listeners[k].inv # i)
    /\ [][\A i \in Ids :
            Terminated(i) /\ Live(i) =>
                /\ invs'[i].gen.adv = invs[i].gen.adv
                /\ PushesOf(i)' = PushesOf(i)]_vars

\* An invocation that waited for 'ready' has pushed null and called its
\* callback.
C12_Witness ==
    \E i \in Ids :
        /\ Terminated(i)
        /\ invs[i].regs >= 1
        /\ NullAt(Vals(PushesOf(i))) # {}
        /\ invs[i].cbCalls # <<>>
        /\ Live(i)

\* The JavaScript run goes on: code on the stack takes its next step, a
\* callback comes back (by returning or by throwing), queued reactions run.
\* The environment does its part: every promise settles, and the consumer
\* keeps reading, so that 'ready' is emitted again.
Fairness ==
    /\ \A i \in Ids : WF_vars(_pushNextValue(i))
    /\ \A i \in Ids : WF_vars(callDone(i))
    /\ \A i \in Ids : WF_vars(attachReactions(i))
    /\ WF_vars(trampolineReturns)
    /\ WF_vars(callbackReturns \/ callbackThrows)
    /\ WF_vars(readyListener)
    /\ WF_vars(readReturns)
    /\ WF_vars(thenNext)
    /\ WF_vars(thenResume)
    /\ WF_vars(catchCallback)
    /\ WF_vars(\E p \in promises : settle(p))
    /\ WF_vars(_read)

\* The collaborator is inside a transform callback.
InCallback == Len(stack) > 0 /\ Top.t = "cb"

\* The runs in which the collaborator starts an invocation from a task of
\* the event loop or from super._read, not from inside a callback.
LiveNext ==
    \/ \E i \in Ids : ~InCallback /\ _transform(i)
    \/ \E i \in Ids : ~InCallback /\ _flush(i)
    \/ \E i \in Ids : _pushNextValue(i)
    \/ \E i \in Ids : callDone(i)
    \/ \E i \in Ids : attachReactions(i)
    \/ trampolineReturns
    \/ callbackReturns
    \/ callbackThrows
    \/ _read
    \/ readyListener
    \/ readReturns
    \/ \E p \in promises : settle(p)
    \/ thenNext
    \/ thenResume
    \/ catchCallback

LiveSpec == Init /\ [][LiveNext]_vars /\ Fairness

\* C13: if every promise settles and 'ready' is emitted after push()
\* answered false, every invocation that started calls its callback: it
\* stays in the runtime until it does, and the stream is again and again in
\* a state where no started invocation is waiting for its callback, so the
\* next input can be taken.
C13_EveryInvocationCompletes ==
    /\ [](\A i \in Ids : invs[i].started /\ invs[i].cbCalls = <<>> => Live(i))
    /\ \A i \in Ids :
          (invs[i].started /\ invs[i].cbCalls = <<>>) ~> (invs[i].cbCalls # <<>>)
    /\ []<>Serialized

\* An invocation that waited for 'ready' and for a promise has called its
\* callback with no error.
C13_Witness ==
    \E i \in Ids :
        /\ invs[i].regs >= 1
        /\ invs[i].asynced
        /\ Len(invs[i].cbCalls) = 1
        /\ invs[i].cbCalls[1].err = NoError

\* The promises and reactions of invocation i that carry a value not yet
\* handed to push().
InFlight(i) ==
    Cardinality({p \in promises : p.inv = i})
    + Cardinality({m \in 1..Len(jobs) : jobs[m].inv = i /\ jobs[m].stage = "next"})

\* C14: within an invocation the calls of generator.next() and of push()
\* alternate: call n+1 of next() starts only when the values of the n calls
\* before it have all been pushed, and at most one value is on its way from
\* next() to push().
C14_AdvanceAndPushAlternate ==
    /\ [](\A i \in Ids :
            /\ invs[i].gen.adv - Len(PushesOf(i)) \in {0, 1}
            /\ InFlight(i) <= 1
            /\ Len(invs[i].produced) - Len(PushesOf(i)) \in {0, 1})
    /\ [][\A i \in Ids :
            Live(i) /\ invs'[i].gen.adv > invs[i].gen.adv =>
                /\ invs'[i].gen.adv = invs[i].gen.adv + 1
                /\ Len(PushesOf(i)) = invs[i].gen.adv
                /\ InFlight(i) = 0]_vars

\* The first value of an invocation is pushed and the promise of the second
\* has not settled.
C14_Witness ==
    \E i \in Ids :
        /\ Len(PushesOf(i)) = 1
        /\ invs[i].gen.adv = 2
        /\ \E p \in promises : p.inv = i /\ p.n = 2

\* A caller that does not wait for the callback of the previous call: it
\* calls stream._transform or stream._flush itself, from a task of the event
\* loop, while earlier invocations are suspended.
directTransform(i) ==
    /\ Fresh(i)
    /\ Idle
    /\ _push(i, "_inflate")

directFlush(i) ==
    /\ Fresh(i)
    /\ Idle
    /\ _push(i, "_burst")

\* The runs of the stream with such a caller.
DirectNext ==
    \/ \E i \in Ids : directTransform(i)
    \/ \E i \in Ids : directFlush(i)
    \/ \E i \in Ids : _pushNextValue(i)
    \/ \E i \in Ids : callDone(i)
    \/ \E i \in Ids : attachReactions(i)
    \/ trampolineReturns
    \/ callbackReturns
    \/ callbackThrows
    \/ _read
    \/ readyListener
    \/ readReturns
    \/ \E p \in promises : settle(p)
    \/ thenNext
    \/ thenResume
    \/ catchCallback

DirectSpec == Init /\ [][DirectNext]_vars

\* push() is called in this step.
PushCalled == Len(pushed') > Len(Pushed)

\* C15: push() is never called while the Readable side is saturated, that
\* is between a push() that answered false and the next emission of
\* 'ready', also when several invocations are suspended on the stream and
\* one emission resumes them.  (Refuted with a second invocation on the
\* stream: it pushes its first value although push() has answered false to
\* the first invocation; and an emission calls every listener in turn, so
\* that once the first resumed invocation has got false again, the second
\* pushes into the saturated stream.)
C15_NoPushWhileSaturated ==
    [][PushCalled => ~sink.saturated]_vars

\* C16: once push(null) has closed the Readable side, push() is not called
\* again on the stream, neither by the invocation that closed it nor by a
\* later _transform or _flush.  (Refuted: a later invocation pushes what
\* its generator yields without looking at the stream.)
C16_NoPushAfterClose ==
    [][PushCalled => ~sink.closed]_vars

\* Invocation i calls push() in this step.
PushBy(i) == Live(i) /\ Len(PushesOf(i)') > Len(PushesOf(i))

\* C17: when an invocation is started only after the callback of the one
\* before was called (from inside that callback too), the pushes of two
\* invocations are not interleaved: in the log of push() calls those of an
\* invocation are contiguous, and an invocation pushes only while it is the
\* one whose callback has not been called.
C17_PushesNotInterleaved ==
    /\ [](\A a, b, c \in 1..Len(pushed) :
            a < b /\ b < c /\ pushed[a].inv = pushed[c].inv =>
                pushed[b].inv = pushed[a].inv)
    /\ [][\A i \in Ids :
            PushBy(i) =>
                /\ invs[i].cbCalls = <<>>
                /\ \A j \in Ids \ {i} : invs[j].started => invs[j].cbCalls # <<>>]_vars

\* The log holds the push of an invocation and, after it, the push of the
\* invocation started from inside its callback.
C17_Witness ==
    /\ Len(pushed) >= 2
    /\ pushed[1].inv # pushed[2].inv
    /\ \E k \in 1..Len(stack) :
          stack[k].t = "cb" /\ stack[k].inv = pushed[1].inv

(***************************************************************************)
(* The default producers.                                                  *)
(***************************************************************************)

\* A stream constructed with any options.
OptsInit == \E o \in Options : Constructed(o)

\* The streams of every configuration, the collaborator starting an
\* invocation from a task of the event loop or from super._read.
OptsSpec == OptsInit /\ [][LiveNext]_vars

\* C18: on a stream constructed without opts.inflate, _transform runs the
\* default *_inflate, whose first generator.next() throws
\* Error("Unimplemented"): push() is never called for the invocation,
\* generator.next() is not called again, and the callback is called exactly
\* once, with that error.
C18_DefaultInflateFails ==
    /\ [](\A i \in Ids :
            invs[i].gen.mode = "_inflate" =>
                /\ PushesOf(i) = <<>>
                /\ invs[i].regs = 0
                /\ invs[i].gen.adv <= 1
                /\ invs[i].gen.adv = 0 => WillCall(i, "pushNext") /\ invs[i].cbCalls = <<>>
                /\ invs[i].gen.adv = 1 =>
                      /\ invs[i].gen.threw
                      /\ Len(invs[i].cbCalls) <= 1
                      /\ invs[i].cbCalls = <<>> =>
                            /\ WillCall(i, "fail")
                            /\ Top.next.err = Err("Unimplemented", i, 1)
                      /\ invs[i].cbCalls # <<>> =>
                            invs[i].cbCalls[1] =
                                [err |-> Err("Unimplemented", i, 1), pushes |-> 0])
    /\ [][\A i \in Ids :
            _transform(i) /\ ~opts.inflate => invs'[i].gen.mode = "_inflate"]_vars

\* The callback of a _transform on a stream without opts.inflate was called.
C18_Witness ==
    /\ ~opts.inflate
    /\ \E i \in Ids :
          /\ invs[i].gen.mode = "_inflate"
          /\ Len(invs[i].cbCalls) = 1

\* C19: on a stream constructed without opts.burst, _flush runs the default
\* *_burst: the invocation calls push() exactly once, with null, registers
\* no 'ready' listener whatever push() answers, does not call
\* generator.next() again, and calls the callback exactly once, with success.
C19_DefaultBurstPushesNull ==
    /\ [](\A i \in Ids :
            invs[i].gen.mode = "_burst" =>
                /\ invs[i].regs = 0
                /\ ~invs[i].gen.threw
                /\ invs[i].gen.adv <= 1
                /\ invs[i].gen.adv = 0 =>
                      /\ PushesOf(i) = <<>>
                      /\ WillCall(i, "pushNext")
                      /\ invs[i].cbCalls = <<>>
                /\ invs[i].gen.adv = 1 =>
                      /\ Vals(PushesOf(i)) = <<Null>>
                      /\ Len(invs[i].cbCalls) <= 1
                      /\ invs[i].cbCalls = <<>> => WillCall(i, "done")
                      /\ invs[i].cbCalls # <<>> =>
                            invs[i].cbCalls[1] = [err |-> NoError, pushes |-> 1])
    /\ [][\A i \in Ids :
            _flush(i) /\ ~opts.burst => invs'[i].gen.mode = "_burst"]_vars

\* The callback of a _flush on a stream without opts.burst was called.
C19_Witness ==
    /\ ~opts.burst
    /\ \E i \in Ids :
          /\ invs[i].gen.mode = "_burst"
          /\ PushesOf(i) # <<>>
          /\ Len(invs[i].cbCalls) = 1

\* The invocation i that starts in this step runs the producer given in
\* opts if there is one, and the default method named by factory if not.
Runs(i, factory, given) ==
    IF given THEN invs'[i].gen.mode \in {"sync", "async", "none"}
    ELSE invs'[i].gen.mode = factory

\* C20: the producers this._inflate and this._burst are the functions given
\* in opts, or the default methods where opts gives none, and stay so: every
\* _transform and every _flush, the first and the later ones, runs the
\* producer the constructor installed.
C20_OptionsChooseProducers ==
    /\ [](producers = [_inflate |-> IF opts.inflate THEN "opts" ELSE "default",
                       _burst |-> IF opts.burst THEN "opts" ELSE "default"])
    /\ [][\A i \in Ids :
            /\ _transform(i) => Runs(i, "_inflate", opts.inflate)
            /\ _flush(i) => Runs(i, "_burst", opts.burst)]_vars

\* On a stream constructed with opts.burst and without opts.inflate, a
\* _flush has run a generator of opts.burst, which yielded a value that is
\* not null, and called its callback.
C20_Witness ==
    /\ opts = [inflate |-> FALSE, burst |-> TRUE]
    /\ \E i \in Ids :
          /\ invs[i].gen.mode \in {"sync", "async"}
          /\ invs[i].produced # <<>>
          /\ invs[i].produced[1] # Null
          /\ invs[i].cbCalls # <<>>

(***************************************************************************)
(* The 'ready' event and the trampoline.                                    *)
(***************************************************************************)

\* The frames of _read on the stack.
ReadFrames == {k \in 1..Len(stack) : stack[k].t = "read"}

\* The emission of a _read on the stack has still to call the listener l.
Delivering(l) ==
    \E k \in ReadFrames : \E m \in 1..Len(stack[k].rest) : stack[k].rest[m] = l

\* emit("ready") has returned and super._read(size) is running.
SuperRead == Len(stack) > 0 /\ Top.t = "read" /\ Top.rest = <<>>

\* Invocation i has a 'ready' listener registered.
Listening(i) == \E m \in 1..Len(listeners) : listeners[m].inv = i

\* A promise chain of invocation i is pending, or one of its reactions is
\* queued.
Awaiting(i) ==
    \/ \E p \in promises : p.inv = i
    \/ \E m \in 1..Len(jobs) : jobs[m].inv = i

\* C21: a _read emits 'ready' once, calling each listener registered at
\* that time once, and only then runs super._read: a listener is registered
\* only while the Readable side is saturated or while the emission that
\* will call it is on its way, and when super._read runs, every invocation
\* that was suspended has been resumed and has run until its callback, a
\* pending promise, or a push() that answered false again.
C21_ReadyBeforeSuperRead ==
    /\ ReadFrames \subseteq {1}
    /\ \A k \in ReadFrames : \A m, n \in 1..Len(stack[k].rest) :
          stack[k].rest[m] = stack[k].rest[n] => m = n
    /\ \A m \in 1..Len(listeners) : sink.saturated \/ Delivering(listeners[m])
    /\ SuperRead =>
          \A i \in Ids :
              invs[i].started /\ invs[i].cbCalls = <<>> =>
                  \/ Listening(i) /\ invs[i].waiting /\ ~Awaiting(i)
                  \/ Awaiting(i) /\ ~Listening(i)

\* super._read is running after an emission that resumed an invocation,
\* which advanced its generator and pushed what it yielded.
C21_Witness ==
    /\ SuperRead
    /\ \E i \in Ids :
          /\ invs[i].regs >= 1
          /\ invs[i].gen.adv >= 2
          /\ Len(PushesOf(i)) >= 2

\* The listener l is registered after this step.
RegisteredNext(l) == \E k \in 1..Len(listeners') : listeners'[k] = l

\* An emission on the stack after this step has still to call l.
DeliveringNext(l) ==
    \E k \in 1..Len(stack') :
        /\ stack'[k].t = "read"
        /\ \E m \in 1..Len(stack'[k].rest) : stack'[k].rest[m] = l

\* This step is emit calling the listener l: its trampoline run starts.
Resumes(l) ==
    /\ Len(stack) > 0
    /\ Top.t = "read"
    /\ Top.rest # <<>>
    /\ l = Head(Top.rest)
    /\ Len(stack') = Len(stack) + 1
    /\ stack'[Len(stack')].t = "tramp"
    /\ stack'[Len(stack')].origin = "ready"

\* C22: a 'ready' listener resumes its invocation at most once.  An
\* emission calls every listener registered when it starts; the step that
\* calls a listener finds it registered and unregisters it, so neither this
\* emission nor a later one calls it again; a listener registered during an
\* emission is not among those the emission calls; no two registrations are
\* the same listener.
C22_ListenerResumesOnce ==
    /\ [](/\ \A m, n \in 1..Len(listeners) : listeners[m] = listeners[n] => m = n
          /\ \A m \in 1..Len(listeners) :
                /\ listeners[m].id <= invs[listeners[m].inv].regs
                /\ invs[listeners[m].inv].cbCalls = <<>>)
    /\ [][/\ \A k \in 1..Len(stack') :
                stack'[k].t = "read" /\ (k > Len(stack) \/ stack[k].t # "read") =>
                    stack'[k].rest = listeners
          /\ \A i \in Ids : \A n \in 1..(MaxItems + 1) :
                LET l == [inv |-> i, id |-> n, next |-> PushNextCont(i)]
                IN  /\ Resumes(l) =>
                          /\ Registered(l)
                          /\ ~RegisteredNext(l)
                          /\ ~DeliveringNext(l)
                          /\ stack'[Len(stack')].next = PushNextCont(i)
                    /\ RegisteredNext(l) /\ ~Registered(l) => ~DeliveringNext(l)]_vars

\* During an emission the invocation it resumed has registered its second
\* listener.
C22_Witness ==
    /\ ReadFrames # {}
    /\ \E m \in 1..Len(listeners) : listeners[m].id = 2

\* A stream whose inflate is a function* that yields the items
\* 1..ScenarioItems and whose burst is any generator function.
ItemsInit ==
    /\ opts = [inflate |-> TRUE, burst |-> TRUE]
    /\ producers = [_inflate |-> "items", _burst |-> "opts"]
    /\ stack = <<>>
    /\ jobs = <<>>
    /\ promises = {}
    /\ listeners = <<>>
    /\ pushed = <<>>
    /\ sink = [saturated |-> FALSE, closed |-> FALSE]
    /\ returned = NoReturn
    /\ invs = [i \in Ids |-> Blank]

ItemsSpec == ItemsInit /\ [][LiveNext]_vars

\* The answers push() gave to the chunks of invocation i.
Answers(i) ==
    LET chunks == SelectSeq(PushesOf(i), LAMBDA p : p.val # Null)
    IN  [k \in 1..Len(chunks) |-> chunks[k].more]

\* How often push() answered false to invocation i.
Fulls(i) == Cardinality({k \in 1..Len(Answers(i)) : ~Answers(i)[k]})

\* The answers of a Readable side that is full after the first item only.
FullAfterFirst == [k \in 1..ScenarioItems |-> k > 1]

\* C23: an invocation has registered as many 'ready' listeners as push()
\* has answered false to it, none if push() never did; and when the
\* generator yields the items 1..ScenarioItems and push() answers false to
\* the first only, the invocation registers one listener, and after the one
\* emission that calls it has pushed the items in order and called the
\* callback once, with success.
C23_OneListenerPerFull ==
    \A i \in Ids :
        /\ invs[i].regs = Fulls(i)
        /\ invs[i].gen.mode = "items" /\ Answers(i) = FullAfterFirst =>
              /\ invs[i].regs = 1
              /\ ~Listening(i)
              /\ Vals(PushesOf(i)) = [k \in 1..ScenarioItems |-> k]
              /\ invs[i].gen.adv = ScenarioItems => WillCall(i, "pushNext")
              /\ invs[i].gen.adv > ScenarioItems =>
                    /\ Len(invs[i].cbCalls) <= 1
                    /\ invs[i].cbCalls = <<>> => WillCall(i, "done")
                    /\ invs[i].cbCalls # <<>> =>
                          invs[i].cbCalls[1] = [err |-> NoError, pushes |-> ScenarioItems]

\* The invocation of the scenario has called its callback.
C23_Witness ==
    \E i \in Ids :
        /\ invs[i].gen.mode = "items"
        /\ Answers(i) = FullAfterFirst
        /\ invs[i].regs = 1
        /\ Len(invs[i].cbCalls) = 1

\* The status for a hand-off: S says that the item is null, A is the answer
\* of push().
StatusTable(S, A) == IF S THEN FINISHED ELSE IF A THEN NOT_FULL ELSE FULL

\* The continuation _pushYieldedValue returned in this step: the trampoline
\* has it, or the reaction that resumes the trampoline with it.
Returned ==
    IF stack' = <<>> THEN jobs'[Len(jobs')].cont ELSE stack'[Len(stack')].next

\* The status _pushYieldedValue acted on in this step, a step that called
\* push(): it registered a listener, continued, or finished.
StatusSeen ==
    IF Len(listeners') > Len(listeners) THEN FULL
    ELSE IF Returned.k = "pushNext" THEN NOT_FULL
    ELSE IF Returned.k = "done" THEN FINISHED
    ELSE "none"

\* C24: the status of a hand-off is FINISHED for null whatever push()
\* answers, NOT_FULL for a chunk push() accepts with true and FULL for a
\* chunk it answers false to; and in every step of a run that calls push(),
\* whatever was pushed before and whether the Readable side was saturated
\* or closed, the pump acts on the status this table gives for the value
\* and the answer of that call.
C24_StatusIsAFunction ==
    /\ [](\A data \in 0..(MaxItems + ScenarioItems) : \A more \in BOOLEAN :
            _pushInflatedData(data, more).status = StatusTable(data = Null, more))
    /\ [][PushCalled =>
            LET e == pushed'[Len(pushed')]
            IN  StatusSeen = StatusTable(e.val = Null, e.more)]_vars

\* An invocation got FULL for a chunk and, after the emission that resumed
\* it, FINISHED for a null.
C24_Witness ==
    \E i \in Ids :
        /\ Len(PushesOf(i)) = 2
        /\ PushesOf(i)[1].val # Null
        /\ ~PushesOf(i)[1].more
        /\ PushesOf(i)[2].val = Null

\* The trampoline loop is at the top of the stack, about to test next.
Looping == Len(stack) > 0 /\ Top.t = "tramp"

\* The continuation the loop is about to call was called in this step: the
\* generator advanced, the callback was called, or the reactions of the
\* promise were attached.
Invoked ==
    LET i == Top.next.inv
    IN  \/ Top.next.k = "pushNext" /\ invs'[i].gen.adv = invs[i].gen.adv + 1
        \/ /\ Top.next.k \in {"done", "fail"}
           /\ Len(invs'[i].cbCalls) = Len(invs[i].cbCalls) + 1
           /\ invs'[i].cbCalls[Len(invs'[i].cbCalls)].err = Top.next.err
        \/ Top.next.k = "promise" /\ Cardinality(promises') = Cardinality(promises) + 1

\* Nothing of the stream or of an invocation in the runtime changes in this
\* step.
NothingInvoked ==
    /\ UNCHANGED <<jobs, promises, listeners, sink>>
    /\ pushed' = Pushed
    /\ \A i \in Ids : Live(i) => invs'[i] = invs[i]

\* C25: while next is a function the trampoline calls it and goes on with
\* what it returned, in the same run; when next is not a function, at the
\* start of the run or later, the run calls nothing more and returns null.
C25_TrampolineRunsToNull ==
    /\ [](returned.t => returned.value = "null")
    /\ [][Looping =>
            IF Top.next.k = "null"
            THEN /\ stack' = Below
                 /\ returned' = Return("null")
                 /\ NothingInvoked
            ELSE /\ Invoked
                 /\ ~returned'.t
                 /\ Len(stack') >= Len(stack)
                 /\ SubSeq(stack', 1, Len(stack) - 1) = Below
                 /\ stack'[Len(stack)] = [Top EXCEPT !.next = stack'[Len(stack)].next]]_vars

\* A run of the trampoline has returned null after it advanced a generator
\* that yields no promise three times and called the callback.
C25_Witness ==
    /\ returned.t
    /\ \E i \in Ids :
          /\ invs[i].gen.adv = 3
          /\ invs[i].regs = 0
          /\ ~invs[i].asynced
          /\ Len(invs[i].cbCalls) = 1

\* The frames of invocation i on the stack.
FramesOf(i) == {k \in 1..Len(stack) : stack[k].inv = i}

\* C26: the depth of the calls of an invocation does not grow with the
\* number of items it pushes: however many values its generator has
\* yielded, with push() answering true, the stack holds one run of the
\* trampoline for it and at most the callback that run called, and, no
\* invocation being started from a callback, at most three frames in all
\* (_read, the run, the callback).
C26_DepthIndependentOfItems ==
    /\ \A i \in Ids :
          /\ Cardinality({k \in FramesOf(i) : stack[k].t = "tramp"}) <= 1
          /\ Cardinality(FramesOf(i)) <= 2
    /\ Len(stack) <= 3

\* The callback runs after the generator yielded ScenarioItems items in a
\* row and push() answered true to each.
C26_Witness ==
    \E i \in Ids :
        /\ invs[i].gen.mode = "items"
        /\ Answers(i) = [k \in 1..ScenarioItems |-> TRUE]
        /\ Len(stack) = 2
        /\ Top.t = "cb"
        /\ Top.inv = i

\* Invocation i has a 'ready' listener registered after this step.
ListeningNext(i) == \E m \in 1..Len(listeners') : listeners'[m].inv = i

\* The chunks invocation i has handed to push() after this step.
PushesOfNext(i) == SelectSeq(pushed', LAMBDA p : p.inv = i)

\* C27: an invocation that has a 'ready' listener registered, push() having
\* answered false, does nothing until an emission calls the listener: it
\* does not advance its generator, call push() or call its callback; and
\* the step that ends the wait is emit calling the listener, which starts a
\* run of the trampoline with () => this._pushNextValue(generator, callback),
\* the next generator.next(), with no push() of its own.
C27_SuspendedUntilReady ==
    [][\A i \in Ids :
          Listening(i) =>
              /\ invs'[i].gen = invs[i].gen
              /\ invs'[i].produced = invs[i].produced
              /\ invs'[i].cbCalls = invs[i].cbCalls
              /\ invs'[i].regs = invs[i].regs
              /\ PushesOfNext(i) = PushesOf(i)
              /\ ~ListeningNext(i) =>
                    /\ Top.t = "read"
                    /\ stack' = Append(ReplaceTop([Top EXCEPT !.rest = Tail(@)]),
                                       TrampFrame("ready", i, PushNextCont(i)))]_vars

\* An emission has resumed an invocation, which went on with the next
\* generator.next() and pushed the next value.
C27_Witness ==
    \E i \in Ids :
        /\ invs[i].regs = 1
        /\ ~Listening(i)
        /\ invs[i].gen.adv = 2
        /\ Vals(PushesOf(i)) = <<1, 2>>

\* Invocation i is suspended: it waits for 'ready' or for a promise.
Suspended(i) == Listening(i) \/ Awaiting(i)

\* The same after this step.
SuspendedNext(i) ==
    \/ ListeningNext(i)
    \/ \E p \in promises' : p.inv = i
    \/ \E m \in 1..Len(jobs') : jobs'[m].inv = i

\* C28: no run of the trampoline goes on over a suspension.  While an
\* invocation waits for 'ready' or for a promise, a run of the trampoline
\* that is still on the stack for it has nothing left to call and returns;
\* there is never more than one run for an invocation; and the step that
\* ends the wait finds no frame of the invocation on the stack and starts a
\* new run, from the listener or from the reaction of the promise (or, for a
\* rejected promise, calls the callback from .catch).
C28_RunEndsAtSuspension ==
    /\ [](\A i \in Ids :
            /\ Cardinality({k \in FramesOf(i) : stack[k].t = "tramp"}) <= 1
            /\ Suspended(i) =>
                  \A k \in FramesOf(i) :
                      stack[k].t = "tramp" => stack[k].next.k = "null")
    /\ [][\A i \in Ids :
            Suspended(i) /\ ~SuspendedNext(i) =>
                /\ FramesOf(i) = {}
                /\ Len(stack') = Len(stack) + 1
                /\ stack'[Len(stack')].inv = i
                /\ \/ /\ stack'[Len(stack')].t = "tramp"
                      /\ stack'[Len(stack')].origin = "ready"
                      /\ Listening(i)
                   \/ /\ stack'[Len(stack')].t = "tramp"
                      /\ stack'[Len(stack')].origin = "then"
                      /\ Awaiting(i)
                   \/ /\ stack'[Len(stack')].t = "cb"
                      /\ stack'[Len(stack')].origin = "catch"
                      /\ Awaiting(i)]_vars

\* A run started by a listener has reached the next suspension, a second
\* false from push(), and is about to return.
C28_Witness ==
    \E i \in Ids :
        /\ Listening(i)
        /\ invs[i].regs = 2
        /\ \E k \in FramesOf(i) :
              /\ stack[k].t = "tramp"
              /\ stack[k].origin = "ready"
              /\ stack[k].next.k = "null"

\* How invocation i produces its values: a generator that yields values
\* ("sync"), a generator that yields promises of values ("promises"), or an
\* asynchronous generator ("async").
ModeOf(i) ==
    IF invs[i].gen.mode = "async" THEN "async"
    ELSE IF invs[i].asynced THEN "promises"
    ELSE "sync"

\* Invocation i has called its callback, its generator did not fail and
\* its callback did not throw.
Completed(i) ==
    /\ invs[i].cbCalls # <<>>
    /\ FailedAt(i) = 0
    /\ ~FactoryThrew(i)
    /\ invs[i].cbThrew = 0

\* What an invocation does for the values ys and the answers of push(): the
\* values it pushes, the listeners it registers and the callback calls.
Expected(ys, answers) ==
    [pushes |-> ys,
     regs |-> Cardinality({k \in 1..Len(answers) : ~answers[k]}),
     cbCalls |-> <<[err |-> NoError, pushes |-> Len(ys)]>>,
     closes |-> NullAt(ys) # {}]

\* What invocation i did.
Observed(i) ==
    [pushes |-> Vals(PushesOf(i)),
     regs |-> invs[i].regs,
     cbCalls |-> invs[i].cbCalls,
     closes |-> NullAt(Vals(PushesOf(i))) # {}]

ResumesNothing(job) == job.stage = "resume" /\ job.ok /\ job.cont.k = "null"

\* The promise reactions pending for invocation i: its promise chains not
\* yet settled and its queued reactions that have something to do.
Reactions(i) ==
    Cardinality({p \in promises : p.inv = i})
    + Cardinality({m \in 1..Len(jobs) : jobs[m].inv = i /\ ~ResumesNothing(jobs[m])})

\* The resumptions pending for invocation i: its registered 'ready'
\* listeners and its pending promise reactions.
Pending(i) ==
    Cardinality({m \in 1..Len(listeners) : listeners[m].inv = i}) + Reactions(i)

\* C30: when the stack is empty, an invocation that has started and has not
\* called its callback has exactly one resumption pending, a 'ready'
\* listener or a promise reaction, not both and not none; and one that has
\* called its callback, the callback not having thrown, has none.  (The
\* reaction that hands the null of a suspended invocation to
\* _resumePushing resumes nothing and is not counted.)
C30_OnePendingResumption ==
    stack = <<>> =>
        \A i \in Ids :
            invs[i].started =>
                /\ invs[i].cbCalls = <<>> =>
                      /\ Pending(i) = 1
                      /\ ~(Listening(i) /\ Reactions(i) > 0)
                /\ invs[i].cbCalls # <<>> /\ invs[i].cbThrew = 0 => Pending(i) = 0

\* With the stack empty, an invocation that was resumed by 'ready' once
\* waits for a promise.
C30_Witness ==
    /\ stack = <<>>
    /\ \E i \in Ids :
          /\ invs[i].regs = 1
          /\ invs[i].cbCalls = <<>>
          /\ \E p \in promises : p.inv = i

(***************************************************************************)
(* The last item, the value of the final result, stray emissions, and the   *)
(* life of a continuation.                                                  *)
(***************************************************************************)

\* The last push() of invocation i was a chunk and answered false.
LastFull(i) ==
    /\ PushesOf(i) # <<>>
    /\ PushesOf(i)[Len(PushesOf(i))].val # Null
    /\ ~PushesOf(i)[Len(PushesOf(i))].more

\* The callback of invocation i is called in this step.
CallsBack(i) == Len(invs'[i].cbCalls) > Len(invs[i].cbCalls)

\* C31: an invocation whose last chunk got false from push() is suspended
\* like after any other chunk, also when the generator has nothing more to
\* yield: as long as its listener is registered the callback is not called;
\* the callback is called only after 'ready' was emitted and called the
\* listener; and if the generator then ends, the callback gets success and
\* nothing more was pushed.
C31_FullOnLastItemWaits ==
    /\ [](\A i \in Ids :
            LastFull(i) =>
                /\ invs[i].regs >= 1
                /\ Listening(i) => invs[i].cbCalls = <<>>
                /\ invs[i].waiting => Listening(i)
                /\ invs[i].cbCalls # <<>> =>
                      /\ ~Listening(i)
                      /\ ~invs[i].waiting
                      /\ invs[i].gen.adv > Len(invs[i].produced)
                      /\ FailedAt(i) = 0 =>
                            invs[i].cbCalls[1] =
                                [err |-> NoError, pushes |-> Len(PushesOf(i))])
    /\ [][\A i \in Ids :
            LastFull(i) /\ CallsBack(i) =>
                /\ ~Listening(i)
                /\ ~invs[i].waiting
                /\ PushesOfNext(i) = PushesOf(i)]_vars

\* The generator ended after its last item got false from push() and
\* 'ready' resumed the invocation: the callback was called.
C31_Witness ==
    \E i \in Ids :
        /\ LastFull(i)
        /\ invs[i].gen.ended
        /\ FailedAt(i) = 0
        /\ Len(invs[i].cbCalls) = 1

\* In this step _pushYieldedValue of invocation i gets a result with
\* done = true: from generator.next() in the trampoline, or from the
\* promise whose reaction .then(next) runs.
GetsDone(i) ==
    \/ /\ Running("pushNext")
       /\ Top.next.inv = i
       /\ invs'[i].gen.ended
       /\ ~invs'[i].gen.threw
       /\ ~invs'[i].asynced
    \/ /\ NextJob("next")
       /\ Head(jobs).inv = i
       /\ Head(jobs).ok
       /\ Head(jobs).res.done

\* C32: the value of a result with done = true is not pushed: the step in
\* which _pushYieldedValue gets such a result calls no push(), and what an
\* invocation has pushed are values of results with done = false, those
\* its generator yielded, in their order.
C32_ReturnValueNotPushed ==
    /\ [](\A i \in Ids : IsPrefix(Vals(PushesOf(i)), invs[i].produced))
    /\ [][\A i \in Ids :
            GetsDone(i) =>
                /\ PushesOfNext(i) = PushesOf(i)
                /\ Len(pushed') <= Len(pushed)
                /\ invs'[i].produced = invs[i].produced]_vars

\* A generator has yielded two values and returned; the invocation pushed
\* the two values and called the callback.
C32_Witness ==
    \E i \in Ids :
        /\ invs[i].gen.ended
        /\ FailedAt(i) = 0
        /\ Len(invs[i].produced) = 2
        /\ Vals(PushesOf(i)) = invs[i].produced
        /\ invs[i].gen.adv = 3
        /\ Len(invs[i].cbCalls) = 1

\* push() answers false to invocation i in this step.
GetsFull(i) ==
    /\ Len(PushesOfNext(i)) > Len(PushesOf(i))
    /\ PushesOfNext(i)[Len(PushesOfNext(i))].val # Null
    /\ ~PushesOfNext(i)[Len(PushesOfNext(i))].more

\* C33: a _read that emits 'ready' while no listener is registered (no
\* invocation has started, one waits for a promise, or all have called
\* their callback) starts nothing: no frame, no reaction, no
\* generator.next(), no push(), no callback call, and nothing of it is
\* kept; an invocation that gets false from push() in any later step
\* registers a listener that no emission under way will call, and its run
\* of the trampoline has nothing more to call.
C33_StrayReadyDoesNothing ==
    [][/\ _read /\ listeners = <<>> =>
             /\ stack' = <<>>
             /\ UNCHANGED <<jobs, promises, listeners>>
             /\ Len(pushed') <= Len(pushed)
             /\ \A i \in Ids :
                   Live(i) =>
                       /\ invs'[i].gen = invs[i].gen
                       /\ invs'[i].produced = invs[i].produced
                       /\ invs'[i].cbCalls = invs[i].cbCalls
                       /\ invs'[i].regs = invs[i].regs
                       /\ PushesOfNext(i) = PushesOf(i)
       /\ \A i \in Ids :
             GetsFull(i) =>
                 /\ Len(listeners') = Len(listeners) + 1
                 /\ listeners'[Len(listeners')].inv = i
                 /\ ~DeliveringNext(listeners'[Len(listeners')])
                 /\ Returned.k = "null"]_vars

\* No listener is registered and an invocation that has pushed a chunk
\* waits for the promise of its second generator.next(), the event loop
\* being free to call _read, which emits 'ready' and leaves this state as
\* it is.
C33_Witness ==
    /\ Idle
    /\ listeners = <<>>
    /\ \E i \in Ids :
          /\ invs[i].cbCalls = <<>>
          /\ invs[i].gen.adv = 2
          /\ Len(PushesOf(i)) = 1
          /\ \E p \in promises : p.inv = i

\* The places that hold a continuation of invocation i to call it: a run of
\* the trampoline (its next), a registered listener, a queued reaction
\* .then((next) => this._resumePushing(next)).
Holders(i) ==
    Cardinality({k \in 1..Len(stack) :
                    /\ stack[k].t = "tramp"
                    /\ stack[k].next.k # "null"
                    /\ stack[k].next.inv = i})
    + Cardinality({m \in 1..Len(listeners) : listeners[m].inv = i})
    + Cardinality({m \in 1..Len(jobs) :
                    /\ jobs[m].inv = i
                    /\ jobs[m].stage = "resume"
                    /\ jobs[m].ok
                    /\ jobs[m].cont.k # "null"})

\* The same after this step.
HoldersNext(i) ==
    Cardinality({k \in 1..Len(stack') :
                    /\ stack'[k].t = "tramp"
                    /\ stack'[k].next.k # "null"
                    /\ stack'[k].next.inv = i})
    + Cardinality({m \in 1..Len(listeners') : listeners'[m].inv = i})
    + Cardinality({m \in 1..Len(jobs') :
                    /\ jobs'[m].inv = i
                    /\ jobs'[m].stage = "resume"
                    /\ jobs'[m].ok
                    /\ jobs'[m].cont.k # "null"})

\* A continuation of invocation i is called in this step: the trampoline is
\* about to call one and the generator advances, the callback is called or
\* the reactions are attached.
Invokes(i) == Looping /\ Top.next.k # "null" /\ Top.next.inv = i /\ Invoked

\* C34: a continuation is called at most once.  At any time at most one
\* place holds a continuation of an invocation, so of the done and next
\* made for one value at most one was handed on; the step that calls a
\* continuation takes it from the run of the trampoline that holds it and
\* leaves at most the one it returned; the listener and the reaction hand
\* theirs to a new run and hold it no more; a continuation comes to be held
\* only when _push makes the first one, when one that is called returns it,
\* or when .then(next) returns it; and once done (or the error
\* continuation) was called, nothing holds a continuation of the
\* invocation and its generator is not advanced again.
C34_ContinuationCalledOnce ==
    /\ [](\A i \in Ids :
            /\ Holders(i) <= 1
            /\ invs[i].cbCalls # <<>> => Holders(i) = 0)
    /\ [][\A i \in Ids :
            /\ Invokes(i) =>
                  /\ Holders(i) = 1
                  /\ HoldersNext(i) <= 1
                  /\ Top.next.k \in {"done", "fail"} => HoldersNext(i) = 0
            /\ HoldersNext(i) > Holders(i) =>
                  \/ ~Live(i)
                  \/ Invokes(i)
                  \/ NextJob("next")
            /\ invs[i].cbCalls # <<>> /\ Live(i) =>
                  /\ invs'[i].gen = invs[i].gen
                  /\ PushesOfNext(i) = PushesOf(i)]_vars

\* The trampoline, a listener and a promise reaction have each handed on a
\* continuation of an invocation, which has then called its callback.
C34_Witness ==
    \E i \in Ids :
        /\ invs[i].regs = 1
        /\ invs[i].asynced
        /\ invs[i].gen.adv >= 3
        /\ Len(invs[i].cbCalls) = 1
        /\ Holders(i) = 0

====
